---- MODULE Spec2Model ----
(***************************************************************************)
(* HelloAgain Calls (src/main.py): the once-a-minute scheduler loop with   *)
(* its due-call detection, and the Twilio voice webhook handlers with the  *)
(* two in-memory audio slots.                                              *)
(*                                                                         *)
(* Time is counted in units of 60/UnitsPerMinute seconds from an epoch     *)
(* that is a Monday 00:00:00 UTC.  Europe/London is on GMT until the first *)
(* Sunday after the epoch at 01:00 UTC and on BST (UTC+1) from then on.    *)
(* Text that the code trims or compares is a sequence of one-character     *)
(* strings.                                                                *)
(***************************************************************************)
EXTENDS Integers, Sequences, FiniteSets, TLC

VARIABLES
    clock,        \* wall clock (UTC instant, in units)
    pc,           \* position of the scheduler thread
    now,          \* run_scheduler_tick: `now` (the instant read at line 96)
    due,          \* run_scheduler_tick: `due` (rows as listed)
    idx,          \* run_scheduler_tick: position of `for s in due`
    u,            \* run_scheduler_tick: `u` (the fetched user row)
    schedules,    \* table call_schedule: id -> row
    call_logs,    \* table call_logs: sequence of rows
    logMeta,      \* history: for each call_logs row, the schedule and tick that wrote
                  \* it and whether that tick went on to mark the schedule fired
    lastFail,     \* the exception last logged by loop() (line 182)
    tickNo,       \* number of ticks started
    restarts,     \* number of process restarts
    env,          \* os.environ: the names that are set
    LAST_REPLY_MP3,
    MARGARET_GREETING_MP3,
    hpc,          \* per call: position of its turn request handler
    form,         \* per call: form of its latest turn request
    reply_text,   \* per call: twilio_voice_turn's reply_text
    resp,         \* per call: the latest HTTP response sent to Twilio
    genCalls,     \* texts sent to the reply generator (OpenAI), in order
    ttsCalls,     \* texts sent to the synthesizer (ElevenLabs), in order
    turns,        \* per call: number of turn requests received
    gen,          \* per call: how the reply generator call of its latest turn ended
    tts,          \* per call: how the synthesizer call of its latest turn ended
    inbounds,     \* per call: number of inbound requests received
    audio,        \* per call: the latest response of an audio endpoint to a retrieval
                  \* made for the call
    gpc,          \* per call: position of its greeting retrieval handler
    greetingPosts,  \* number of synthesizer requests made for the greeting
    greetingWrites  \* number of assignments to MARGARET_GREETING_MP3 (line 351)

schedVars == <<clock, pc, now, due, idx, u, schedules, call_logs, logMeta,
               lastFail, tickNo, restarts>>
callVars == <<inbounds, audio>>
greetingVars == <<gpc, greetingPosts, greetingWrites>>
httpVars == <<env, LAST_REPLY_MP3, MARGARET_GREETING_MP3, hpc, form, reply_text,
              resp, genCalls, ttsCalls, turns, gen, tts, callVars, greetingVars>>
vars == <<schedVars, httpVars>>

-----------------------------------------------------------------------------
(* Bounds of the model *)

UnitsPerMinute == 2
MaxTickUnits == 1
MaxTicks == 2
MaxRestarts == 1
MaxTurns == 3
MaxCallRequests == 3
MaxGreetingPosts == 2

-----------------------------------------------------------------------------
(* Calendar: datetime, ZoneInfo *)

SLEEP_SECONDS == 60
MinutesPerHour == 60
HoursPerDay == 24
DaysPerWeek == 7

SleepUnits == (SLEEP_SECONDS * UnitsPerMinute) \div 60
SecondsPerUnit == 60 \div UnitsPerMinute
MinutesPerDay == HoursPerDay * MinutesPerHour
UnitsPerDay == MinutesPerDay * UnitsPerMinute
UnitsPerWeek == DaysPerWeek * UnitsPerDay

\* the instant day d (0 = the epoch Monday), hh:mm, plus `unit` units
At(d, hh, mm, unit) == ((d * MinutesPerDay + hh * MinutesPerHour + mm) * UnitsPerMinute) + unit

\* Europe/London switches to BST on a Sunday at 01:00 UTC
DstStart == At(6, 1, 0, 0)

UkOffsetMinutes(utc) == IF utc >= DstStart THEN 60 ELSE 0

\* datetime.now(UK_TZ), .astimezone(UK_TZ): the local wall time of a UTC instant
ToUk(utc) == utc + UkOffsetMinutes(utc) * UnitsPerMinute

DateOf(local) == local \div UnitsPerDay
HourOf(local) == (local % UnitsPerDay) \div (MinutesPerHour * UnitsPerMinute)
MinuteOf(local) == ((local % UnitsPerDay) \div UnitsPerMinute) % MinutesPerHour
SecondOf(local) == (local % UnitsPerMinute) * SecondsPerUnit
\* date.weekday(): Monday is 0
Weekday(local) == DateOf(local) % DaysPerWeek

-----------------------------------------------------------------------------
(* Text *)

Whitespace == {" ", "\t", "\n"}

RECURSIVE LStrip(_)
LStrip(t) == IF t # <<>> /\ Head(t) \in Whitespace THEN LStrip(Tail(t)) ELSE t

RECURSIVE RStrip(_)
RStrip(t) ==
    IF t # <<>> /\ t[Len(t)] \in Whitespace THEN RStrip(SubSeq(t, 1, Len(t) - 1)) ELSE t

\* str.strip()
Strip(t) == RStrip(LStrip(t))

DigitChar == <<"0", "1", "2", "3", "4", "5", "6", "7", "8", "9">>

\* f"{n}"
TwoDigitsUnpadded(n) ==
    IF n < 10 THEN <<DigitChar[n + 1]>>
    ELSE <<DigitChar[(n \div 10) + 1], DigitChar[(n % 10) + 1]>>

\* f"{n:02d}"
TwoDigits(n) == <<DigitChar[(n \div 10) + 1], DigitChar[(n % 10) + 1]>>

IsDigit(c) == \E k \in 1..10 : DigitChar[k] = c
DigitValue(c) == (CHOOSE k \in 1..10 : DigitChar[k] = c) - 1

\* str.split(":")
RECURSIVE Split(_, _)
Split(t, sep) ==
    IF \A k \in 1..Len(t) : t[k] # sep THEN <<t>>
    ELSE LET k == CHOOSE j \in 1..Len(t) : t[j] = sep /\ \A m \in 1..(j - 1) : t[m] # sep
         IN  <<SubSeq(t, 1, k - 1)>> \o Split(SubSeq(t, k + 1, Len(t)), sep)

\* int(x) of a text of decimal digits; IntOk says whether int(x) returns
IntOk(t) == t # <<>> /\ \A k \in 1..Len(t) : IsDigit(t[k])
RECURSIVE IntOf(_)
IntOf(t) == IF t = <<>> THEN 0 ELSE IntOf(SubSeq(t, 1, Len(t) - 1)) * 10 + DigitValue(t[Len(t)])

\* _parse_hhmm: whether it returns, and the (hour, minute) it returns
parse_hhmm_ok(t) ==
    LET parts == Split(Strip(t), ":")
    IN  Len(parts) = 2 /\ IntOk(parts[1]) /\ IntOk(parts[2])
parse_hhmm(t) ==
    LET parts == Split(Strip(t), ":")
    IN  <<IntOf(parts[1]), IntOf(parts[2])>>

-----------------------------------------------------------------------------
(* Timestamps as the store holds them: ISO-8601 text, here its fields *)

NullTs == [kind |-> "null", day |-> 0, hour |-> 0, minute |-> 0, second |-> 0, tz |-> ""]
BadTs == [kind |-> "bad", day |-> 0, hour |-> 0, minute |-> 0, second |-> 0, tz |-> ""]

\* now.astimezone(ZoneInfo("UTC")).isoformat()
IsoFormatUtc(utc) ==
    [kind |-> "iso", day |-> DateOf(utc), hour |-> HourOf(utc), minute |-> MinuteOf(utc),
     second |-> SecondOf(utc), tz |-> "+00:00"]

\* the same instant written with another UTC offset, as a store may hold it
IsoFormatTz(utc, tz, offMinutes) ==
    LET l == utc + offMinutes * UnitsPerMinute
    IN  [kind |-> "iso", day |-> DateOf(l), hour |-> HourOf(l), minute |-> MinuteOf(l),
         second |-> SecondOf(l), tz |-> tz]

\* last_called_at.replace("Z", "+00:00")
ReplaceZ(tz) == IF tz = "Z" THEN "+00:00" ELSE tz

TzOffsetMinutes(tz) == IF tz = "+01:00" THEN 60 ELSE 0

\* datetime.fromisoformat(...): the UTC instant of an ISO text
FromIsoFormat(ts) ==
    At(ts.day, ts.hour, ts.minute, ts.second \div SecondsPerUnit)
        - TzOffsetMinutes(ReplaceZ(ts.tz)) * UnitsPerMinute

\* a comparison that leaves out .astimezone(UK_TZ)
already_called_today_utc_date(last_called_at, today) ==
    IF last_called_at.kind = "null" THEN FALSE
    ELSE IF last_called_at.kind = "bad" THEN FALSE
    ELSE DateOf(FromIsoFormat(last_called_at)) = today

\* _already_called_today
already_called_today(last_called_at, today) ==
    IF last_called_at.kind = "null" THEN FALSE
    ELSE IF last_called_at.kind = "bad" THEN FALSE
    ELSE DateOf(ToUk(FromIsoFormat(last_called_at))) = today

-----------------------------------------------------------------------------
(* Tables of the store *)

NoneValue == "<None>"

Mon == <<"M", "o", "n">>
Tue == <<"T", "u", "e">>
Wed == <<"W", "e", "d">>
Thu == <<"T", "h", "u">>
Fri == <<"F", "r", "i">>
Sat == <<"S", "a", "t">>
Sun == <<"S", "u", "n">>
Funday == <<"F", "u", "n", "d", "a", "y">>

\* DAY_MAP: `day in DAY_MAP` and DAY_MAP[day]
DayInMap(day) == day \in {Mon, Tue, Wed, Thu, Fri, Sat, Sun}
DAY_MAP(day) ==
    CASE day = Mon -> 0 [] day = Tue -> 1 [] day = Wed -> 2 [] day = Thu -> 3
      [] day = Fri -> 4 [] day = Sat -> 5 [] day = Sun -> 6

Time0900 == <<"0", "9", ":", "0", "0">>
Time0030 == <<"0", "0", ":", "3", "0">>
TimeNoColon == <<"0", "9", "0", "0">>
TimeWords == <<"n", "i", "n", "e", ":", "x">>

\* table users
users ==
    (1 :> [id |-> 1, first_name |-> "Ada", interests |-> "gardening, jazz"]) @@
    (2 :> [id |-> 2, first_name |-> "Bert", interests |-> NoneValue])

NoUser == [id |-> 0, first_name |-> "", interests |-> NoneValue]

FiredEarlierToday == IsoFormatTz(At(0, 8, 0, 0), "Z", 0)
FiredAfterMidnightBst == IsoFormatTz(At(6, 23, 30, 0), "+01:00", 60)

Row(id, user_id, day, time, enabled, last) ==
    [id |-> id, user_id |-> user_id, day_of_week |-> day, call_time |-> time,
     enabled |-> enabled, last_called_at |-> last]

\* a fired mark can only be of an instant that has passed
Past(ts, start, otherwise) == IF FromIsoFormat(ts) <= start THEN ts ELSE otherwise

\* table call_schedule when the process starts at instant `start`
InitialSchedules(start) ==
    (1 :> Row(1, 1, Mon, Time0900, TRUE, NullTs)) @@
    (2 :> Row(2, 2, <<" ">> \o Mon \o <<" ">>, Time0900 \o <<" ">>, TRUE, BadTs)) @@
    (3 :> Row(3, 1, Funday, Time0900, TRUE, NullTs)) @@
    (4 :> Row(4, 1, Mon, TimeNoColon, TRUE, NullTs)) @@
    (5 :> Row(5, 2, Tue, Time0030, TRUE, NullTs)) @@
    (6 :> Row(6, 2, Mon, Time0900, FALSE, NullTs)) @@
    (7 :> Row(7, 1, Mon, Time0900, TRUE, Past(FiredEarlierToday, start, NullTs))) @@
    (8 :> Row(8, 2, Mon, Time0900, TRUE, Past(FiredAfterMidnightBst, start, IsoFormatUtc(At(0, 8, 0, 0))))) @@
    (9 :> Row(9, 1, <<>>, TimeWords, TRUE, NullTs))

ScheduleIds == 1..9

\* the call_logs row of lines 151-160
LogRow(user_id, nowUtc, usr) ==
    [user_id |-> user_id, call_time |-> IsoFormatUtc(nowUtc), duration_seconds |-> 0,
     answered |-> FALSE, recording_url |-> NoneValue,
     summary |-> "Scheduler triggered (Twilio not yet connected).",
     mood |-> "neutral",
     topics |-> IF usr.interests = NoneValue THEN "" ELSE usr.interests]

\* the rows call_logs holds for the fired marks the schedules start with
RECURSIVE InitialLogs(_, _)
InitialLogs(scheds, ids) ==
    IF ids = {} THEN <<>>
    ELSE LET id == CHOOSE x \in ids : \A y \in ids : x <= y
             s == scheds[id]
             rest == InitialLogs(scheds, ids \ {id})
         IN  IF s.last_called_at.kind = "iso"
             THEN <<LogRow(s.user_id, FromIsoFormat(s.last_called_at), users[s.user_id])>>
                      \o rest
             ELSE rest

RECURSIVE InitialMeta(_, _)
InitialMeta(scheds, ids) ==
    IF ids = {} THEN <<>>
    ELSE LET id == CHOOSE x \in ids : \A y \in ids : x <= y
             rest == InitialMeta(scheds, ids \ {id})
         IN  IF scheds[id].last_called_at.kind = "iso"
             THEN <<[sid |-> id, tick |-> 0, marked |-> TRUE]>> \o rest
             ELSE rest

-----------------------------------------------------------------------------
(* run_scheduler_tick: detection *)

\* f"{now.hour}:{now.minute}"
now_hhmm_unpadded(local) ==
    TwoDigitsUnpadded(HourOf(local)) \o <<":">> \o TwoDigitsUnpadded(MinuteOf(local))

\* line 97: f"{now.hour:02d}:{now.minute:02d}"
now_hhmm(local) == TwoDigits(HourOf(local)) \o <<":">> \o TwoDigits(MinuteOf(local))

\* a loop body that looks the day up without the `in` test: DAY_MAP[day] raises KeyError
RowOutcomeUnguarded(s, local) ==
    LET day == Strip(s.day_of_week)
        call_time == Strip(s.call_time)
    IN  IF ~DayInMap(day) THEN "raise"
        ELSE IF DAY_MAP(day) # Weekday(local) THEN "continue"
        ELSE IF call_time # now_hhmm(local) THEN "continue"
        ELSE IF already_called_today(s.last_called_at, DateOf(local)) THEN "continue"
        ELSE "append"

\* a loop body without the test of line 123
RowOutcomeIgnoringMark(s, local) ==
    LET day == Strip(s.day_of_week)
        call_time == Strip(s.call_time)
    IN  IF ~DayInMap(day) THEN "continue"
        ELSE IF DAY_MAP(day) # Weekday(local) THEN "continue"
        ELSE IF call_time # now_hhmm(local) THEN "continue"
        ELSE "append"

\* lines 114-126, the body of `for s in schedules`: how it ends for row s
RowOutcome(s, local) ==
    LET day == Strip(s.day_of_week)
        call_time == Strip(s.call_time)
    IN  IF ~DayInMap(day) THEN "continue"
        ELSE IF DAY_MAP(day) # Weekday(local) THEN "continue"
        ELSE IF call_time # now_hhmm(local) THEN "continue"
        ELSE IF already_called_today(s.last_called_at, DateOf(local)) THEN "continue"
        ELSE "append"

\* the order in which the store lists rows is not fixed by the query
Orders == {"ascending", "descending"}

RECURSIVE IdsInOrder(_, _)
IdsInOrder(ids, order) ==
    IF ids = {} THEN <<>>
    ELSE LET id == IF order = "ascending"
                   THEN CHOOSE x \in ids : \A y \in ids : x <= y
                   ELSE CHOOSE x \in ids : \A y \in ids : x >= y
         IN  <<id>> \o IdsInOrder(ids \ {id}, order)

\* .select(...).eq("enabled", True).execute()
ListEnabled(scheds, order) ==
    LET ids == IdsInOrder({id \in DOMAIN scheds : scheds[id].enabled}, order)
    IN  [k \in 1..Len(ids) |-> scheds[ids[k]]]

\* lines 112-126: the rows appended to `due`, and whether the loop raises
DetectDue(rows, nowUtc) == SelectSeq(rows, LAMBDA s : RowOutcome(s, ToUk(nowUtc)) = "append")
DetectRaises(rows, nowUtc) == \E k \in DOMAIN rows : RowOutcome(rows[k], ToUk(nowUtc)) = "raise"

-----------------------------------------------------------------------------
(* The scheduler thread: startup.loop and run_scheduler_tick *)

NoFail == [tick |-> 0, step |-> "none", sid |-> 0, at |-> 0, row |-> Row(0, 0, <<>>, <<>>, FALSE, NullTs)]

\* instants at which the process is started
StartInstants == {At(0, 8, 59, 1), At(0, 9, 0, 0), At(7, 8, 0, 0), At(7, 23, 30, 0)}

\* how long the process stays down before it is started again
Downtimes == {0, UnitsPerWeek - MinutesPerHour * UnitsPerMinute}

SchedInit ==
    \E start \in StartInstants :
        /\ clock = start
        /\ pc = "tick"
        /\ now = start
        /\ due = <<>>
        /\ idx = 1
        /\ u = NoUser
        /\ schedules = InitialSchedules(start)
        /\ call_logs = InitialLogs(InitialSchedules(start), ScheduleIds)
        /\ logMeta = InitialMeta(InitialSchedules(start), ScheduleIds)
        /\ lastFail = NoFail
        /\ tickNo = 0
        /\ restarts = 0

\* a loop without the try/except: the exception ends the thread
ThreadDies == "dead"

\* loop(), lines 181-183: the exception is logged and the thread goes to sleep
OnTickException == "sleep"

\* an exception leaves run_scheduler_tick at `step`, while processing row s
Raise(step, s) ==
    /\ lastFail' = [tick |-> tickNo, step |-> step, sid |-> s.id, at |-> now, row |-> s]
    /\ pc' = OnTickException

\* an exception before the loop over `due`: in the listing or in the detection
RaiseEarly(t, step) ==
    /\ lastFail' = [tick |-> t, step |-> step, sid |-> 0, at |-> clock, row |-> NoFail.row]
    /\ pc' = OnTickException

\* lines 96-130: read the clock, list the enabled schedules, detect
TickStart ==
    /\ pc = "tick"
    /\ tickNo < MaxTicks
    /\ tickNo' = tickNo + 1
    /\ now' = clock
    /\ idx' = 1
    /\ \/ /\ RaiseEarly(tickNo + 1, "list")
          /\ due' = <<>>
       \/ \E order \in Orders :
            LET rows == ListEnabled(schedules, order)
            IN  IF DetectRaises(rows, clock)
                THEN /\ RaiseEarly(tickNo + 1, "detect")
                     /\ due' = <<>>
                ELSE /\ due' = DetectDue(rows, clock)
                     /\ pc' = IF due' = <<>> THEN "sleep" ELSE "fetch"
                     /\ UNCHANGED lastFail
    /\ UNCHANGED <<clock, u, schedules, call_logs, logMeta, restarts>>

\* a fetch whose failure is swallowed: the tick goes on with an empty user row
FetchUserSwallowing ==
    /\ pc = "fetch"
    /\ LET s == due[idx]
       IN  \/ /\ s.user_id \in DOMAIN users
              /\ u' = users[s.user_id]
              /\ pc' = "insert"
              /\ UNCHANGED lastFail
           \/ /\ lastFail' = [tick |-> tickNo, step |-> "fetch", sid |-> s.id, at |-> now, row |-> s]
              /\ u' = NoUser
              /\ pc' = "insert"
    /\ UNCHANGED <<clock, now, due, idx, schedules, call_logs, logMeta, tickNo, restarts>>

\* lines 134-148
FetchUser ==
    /\ pc = "fetch"
    /\ LET s == due[idx]
       IN  \/ /\ s.user_id \in DOMAIN users
              /\ u' = users[s.user_id]
              /\ pc' = "insert"
              /\ UNCHANGED lastFail
           \/ /\ Raise("fetch", s)
              /\ UNCHANGED u
    /\ UNCHANGED <<clock, now, due, idx, schedules, call_logs, logMeta, tickNo, restarts>>

\* an append whose failure is swallowed: the tick goes on to mark the schedule
InsertLogSwallowing ==
    /\ pc = "insert"
    /\ LET s == due[idx]
       IN  \/ /\ call_logs' = Append(call_logs, LogRow(s.user_id, now, u))
              /\ logMeta' = Append(logMeta, [sid |-> s.id, tick |-> tickNo, marked |-> FALSE])
              /\ pc' = "update"
              /\ UNCHANGED lastFail
           \/ /\ lastFail' = [tick |-> tickNo, step |-> "insert", sid |-> s.id, at |-> now, row |-> s]
              /\ pc' = "update"
              /\ UNCHANGED <<call_logs, logMeta>>
    /\ UNCHANGED <<clock, now, due, idx, u, schedules, tickNo, restarts>>

\* lines 151-160
InsertLog ==
    /\ pc = "insert"
    /\ LET s == due[idx]
       IN  \/ /\ call_logs' = Append(call_logs, LogRow(s.user_id, now, u))
              /\ logMeta' = Append(logMeta, [sid |-> s.id, tick |-> tickNo, marked |-> FALSE])
              /\ pc' = "update"
              /\ UNCHANGED lastFail
           \/ /\ Raise("insert", s)
              /\ UNCHANGED <<call_logs, logMeta>>
    /\ UNCHANGED <<clock, now, due, idx, u, schedules, tickNo, restarts>>

\* lines 163-165, and the step of `for s in due`
MarkFired ==
    /\ pc = "update"
    /\ LET s == due[idx]
       IN  \/ /\ schedules' = [schedules EXCEPT ![s.id].last_called_at = IsoFormatUtc(now)]
              /\ logMeta' = [logMeta EXCEPT ![Len(logMeta)].marked = TRUE]
              /\ idx' = idx + 1
              /\ pc' = IF idx < Len(due) THEN "fetch" ELSE "sleep"
              /\ UNCHANGED lastFail
           \/ /\ Raise("update", s)
              /\ UNCHANGED <<schedules, idx, logMeta>>
    /\ UNCHANGED <<clock, now, due, u, call_logs, tickNo, restarts>>

\* line 183: time.sleep(60), after a tick that took d units
Sleep ==
    /\ pc = "sleep"
    /\ \E d \in 0..MaxTickUnits : clock' = clock + d + SleepUnits
    /\ pc' = "tick"
    /\ UNCHANGED <<now, due, idx, u, schedules, call_logs, logMeta, lastFail, tickNo, restarts>>

\* the process is killed at any point and started again: startup() at line 169
Restart ==
    /\ restarts < MaxRestarts
    /\ restarts' = restarts + 1
    /\ \E dt \in Downtimes : clock' = clock + dt
    /\ pc' = "tick"
    /\ due' = <<>>
    /\ idx' = 1
    /\ u' = NoUser
    /\ UNCHANGED <<now, schedules, call_logs, logMeta, lastFail, tickNo>>

-----------------------------------------------------------------------------------------------------------------------------------------------------
(* The webhook handlers *)

Calls == {1, 2}

\* a directive of an instruction document (TwiML)
Directive(kind, text, url, method, timeout) ==
    [kind |-> kind, text |-> text, url |-> url, method |-> method, timeout |-> timeout]
Play(url) == Directive("Play", <<>>, url, "", 0)
Say(text) == Directive("Say", text, "", "", 0)
Gather(action, method, timeout, say) == Directive("Gather", say, action, method, timeout)
Redirect(method, url) == Directive("Redirect", <<>>, url, method, 0)

GATHER_TIMEOUT == 6
HTTP_OK == 200
HTTP_INTERNAL_SERVER_ERROR == 500

\* Response(content=twiml, media_type="application/xml")
XmlResponse(doc) == [status |-> HTTP_OK, media_type |-> "application/xml", doc |-> doc]
\* what the framework answers when the handler raises
ErrorResponse == [status |-> HTTP_INTERNAL_SERVER_ERROR, media_type |-> "text/plain", doc |-> <<>>]
NoResponse == [status |-> 0, media_type |-> "", doc |-> <<>>]

\* lines 221-225
ApologyDoc ==
    <<Say(<<"Sorry love, I didn't quite catch that.">>),
      Redirect("POST", "/twilio/voice/inbound")>>

\* lines 268-272
SayDoc(reply_for_say) ==
    <<Say(reply_for_say), Redirect("POST", "/twilio/voice/inbound")>>

\* lines 282-293
PlayReplyDoc ==
    <<Play("https://helloagain-calls-production.up.railway.app/audio/last-reply.mp3"),
      Gather("/twilio/voice/turn", "POST", GATHER_TIMEOUT, <<"And?">>),
      Say(<<"Sorry, I didn't catch that. Would you like to say a bit more?">>),
      Redirect("POST", "/twilio/voice/inbound")>>

\* the greeting document without its closing redirect
InboundDocDeadEnd ==
    <<Play("https://helloagain-calls-production.up.railway.app/audio/margaret-greeting.mp3"),
      Gather("/twilio/voice/turn", "POST", GATHER_TIMEOUT, <<"Go on.">>),
      Say(<<"Sorry, I didn't catch that. Would you like to say hello?">>)>>

\* lines 197-207
InboundDoc ==
    <<Play("https://helloagain-calls-production.up.railway.app/audio/margaret-greeting.mp3"),
      Gather("/twilio/voice/turn", "POST", GATHER_TIMEOUT, <<"Go on.">>),
      Say(<<"Sorry, I didn't catch that. Would you like to say hello?">>),
      Redirect("POST", "/twilio/voice/inbound")>>

\* line 240
FallbackReply == <<"Sorry love, I'm having a little moment. How have you been today?">>

\* only the ampersand is rewritten
RECURSIVE ReplyForSayKeepingBrackets(_)
ReplyForSayKeepingBrackets(t) ==
    IF t = <<>> THEN <<>>
    ELSE (IF Head(t) = "&" THEN <<"a", "n", "d">> ELSE <<Head(t)>>)
         \o ReplyForSayKeepingBrackets(Tail(t))

\* line 267: .replace("&", "and").replace("<", "").replace(">", "")
RECURSIVE ReplyForSay(_)
ReplyForSay(t) ==
    IF t = <<>> THEN <<>>
    ELSE LET c == Head(t)
         IN  (IF c = "&" THEN <<"a", "n", "d">>
              ELSE IF c \in {"<", ">"} THEN <<>>
              ELSE <<c>>) \o ReplyForSay(Tail(t))

\* the bytes of an audio slot: None, or the synthesized audio of a text
NoMp3 == [is_none |-> TRUE, bytes |-> <<>>]
Mp3Of(text) == [is_none |-> FALSE, bytes |-> <<"mp3">> \o text]

\* the turn request's form: the SpeechResult field, when present
NoForm == [present |-> FALSE, text |-> <<>>]
Forms ==
    {NoForm,
     [present |-> TRUE, text |-> <<>>],
     [present |-> TRUE, text |-> <<" ", "\t">>],
     [present |-> TRUE, text |-> <<" ", "h", "i", " ">>]}

\* what the reply generator answers (ai.output_text), when it answers
GeneratedTexts == {<<>>, <<"o", "h", " ">>, <<"a", "&", "b", "<", "c", ">">>}

\* the field taken without .strip()
UserTextUntrimmed(f) == IF f.present /\ f.text # <<>> THEN f.text ELSE <<>>

\* line 218: (form.get("SpeechResult") or "").strip()
UserText(f) == Strip(IF f.present /\ f.text # <<>> THEN f.text ELSE <<>>)

\* lines 229-240: the generated text, stripped, or the fallback line when the call raises
GeneratorReply(outcome, texts) ==
    IF outcome = "answered" THEN {Strip(g) : g \in texts} ELSE {FallbackReply}

\* Response(content=..., media_type="audio/mpeg"), lines 312-313 and 326-353
AudioResponse(path, content) ==
    [status |-> HTTP_OK, media_type |-> "audio/mpeg", path |-> path, body |-> content]
\* what the framework answers when an audio handler raises
AudioError(path) ==
    [status |-> HTTP_INTERNAL_SERVER_ERROR, media_type |-> "text/plain", path |-> path,
     body |-> <<>>]
NoAudio == [status |-> 0, media_type |-> "", path |-> "", body |-> <<>>]

EnvRequired == {"ELEVENLABS_API_KEY", "ELEVENLABS_MARGARET_VOICE_ID"}

\* lines 243-244: os.environ[...] raises KeyError unless both names are set
EnvLookupOk(e) == EnvRequired \subseteq e

HttpInit ==
    /\ env \in SUBSET EnvRequired
    /\ LAST_REPLY_MP3 = NoMp3
    /\ MARGARET_GREETING_MP3 = NoMp3
    /\ hpc = [c \in Calls |-> "idle"]
    /\ form = [c \in Calls |-> NoForm]
    /\ reply_text = [c \in Calls |-> <<>>]
    /\ resp = [c \in Calls |-> NoResponse]
    /\ genCalls = <<>>
    /\ ttsCalls = <<>>
    /\ turns = [c \in Calls |-> 0]
    /\ gen = [c \in Calls |-> "none"]
    /\ tts = [c \in Calls |-> "none"]
    /\ inbounds = [c \in Calls |-> 0]
    /\ audio = [c \in Calls |-> NoAudio]
    /\ gpc = [c \in Calls |-> "idle"]
    /\ greetingPosts = 0
    /\ greetingWrites = 0

RECURSIVE SumOver(_, _)
SumOver(f, S) ==
    IF S = {} THEN 0 ELSE LET x == CHOOSE y \in S : TRUE IN f[x] + SumOver(f, S \ {x})
TotalTurns == SumOver(turns, Calls)

\* twilio_voice_turn, lines 217-261: from the request to the await of the synthesizer,
\* with the reply generator answering one of `texts` or raising
TurnRequestOver(c, f, texts) ==
    /\ hpc[c] = "idle"
    /\ TotalTurns < MaxTurns
    /\ turns' = [turns EXCEPT ![c] = @ + 1]
    /\ form' = [form EXCEPT ![c] = f]
    /\ LET user_text == UserText(f)
       IN  IF user_text = <<>>
           THEN /\ resp' = [resp EXCEPT ![c] = XmlResponse(ApologyDoc)]
                /\ UNCHANGED <<hpc, reply_text, genCalls, ttsCalls, gen>>
           ELSE /\ genCalls' = Append(genCalls, user_text)
                /\ \E outcome \in {"answered", "raised"} :
                   \E rt \in GeneratorReply(outcome, texts) :
                     /\ gen' = [gen EXCEPT ![c] = outcome]
                     /\ reply_text' = [reply_text EXCEPT ![c] = rt]
                     /\ IF EnvLookupOk(env)
                        THEN /\ hpc' = [hpc EXCEPT ![c] = "tts"]
                             /\ ttsCalls' = Append(ttsCalls, rt)
                             /\ UNCHANGED resp
                        ELSE /\ resp' = [resp EXCEPT ![c] = ErrorResponse]
                             /\ UNCHANGED <<hpc, ttsCalls>>
    /\ UNCHANGED <<env, LAST_REPLY_MP3, MARGARET_GREETING_MP3, tts, callVars, greetingVars>>

TurnRequest(c, f) == TurnRequestOver(c, f, GeneratedTexts)

\* a failed synthesis empties the session-reply slot
TurnSynthReturnsClearing(c) ==
    /\ hpc[c] = "tts"
    /\ hpc' = [hpc EXCEPT ![c] = "idle"]
    /\ \/ /\ tts' = [tts EXCEPT ![c] = "ok"]
          /\ LAST_REPLY_MP3' = Mp3Of(reply_text[c])
          /\ resp' = [resp EXCEPT ![c] = XmlResponse(PlayReplyDoc)]
       \/ /\ tts' = [tts EXCEPT ![c] = "failed"]
          /\ resp' = [resp EXCEPT ![c] = XmlResponse(SayDoc(ReplyForSay(reply_text[c])))]
          /\ LAST_REPLY_MP3' = NoMp3
    /\ UNCHANGED <<env, MARGARET_GREETING_MP3, form, reply_text, genCalls, ttsCalls, turns,
                   gen, callVars, greetingVars>>

\* twilio_voice_turn, lines 261-294: the synthesizer answers or fails
TurnSynthReturns(c) ==
    /\ hpc[c] = "tts"
    /\ hpc' = [hpc EXCEPT ![c] = "idle"]
    /\ \/ /\ tts' = [tts EXCEPT ![c] = "ok"]
          /\ LAST_REPLY_MP3' = Mp3Of(reply_text[c])
          /\ resp' = [resp EXCEPT ![c] = XmlResponse(PlayReplyDoc)]
       \/ /\ tts' = [tts EXCEPT ![c] = "failed"]
          /\ resp' = [resp EXCEPT ![c] = XmlResponse(SayDoc(ReplyForSay(reply_text[c])))]
          /\ UNCHANGED LAST_REPLY_MP3
    /\ UNCHANGED <<env, MARGARET_GREETING_MP3, form, reply_text, genCalls, ttsCalls, turns,
                   gen, callVars, greetingVars>>

\* twilio_voice_inbound, lines 190-209; the platform makes one request at a time for
\* a call, so none arrives while the call's turn is being handled
twilio_voice_inbound(c) ==
    /\ hpc[c] = "idle"
    /\ TotalTurns + SumOver(inbounds, Calls) < MaxCallRequests
    /\ inbounds' = [inbounds EXCEPT ![c] = @ + 1]
    /\ resp' = [resp EXCEPT ![c] = XmlResponse(InboundDoc)]
    /\ UNCHANGED <<env, LAST_REPLY_MP3, MARGARET_GREETING_MP3, hpc, form, reply_text,
                   genCalls, ttsCalls, turns, gen, tts, audio, greetingVars>>

\* the CallStatus values of a status callback: the call goes on, or has ended
CallStatuses == {"in-progress", "completed"}

\* twilio_voice_status, lines 296-304: the form is printed and "ok" is answered; no
\* variable of the program is read or written
twilio_voice_status(status) ==
    /\ status \in CallStatuses
    /\ UNCHANGED httpVars

\* the retrieval answers with an empty body whatever the slot holds
last_reply_mp3_empty(c) ==
    /\ audio' = [audio EXCEPT ![c] = AudioResponse("/audio/last-reply.mp3", <<>>)]
    /\ UNCHANGED <<env, LAST_REPLY_MP3, MARGARET_GREETING_MP3, hpc, form, reply_text, resp,
                   genCalls, ttsCalls, turns, gen, tts, inbounds, greetingVars>>

\* last_reply_mp3, lines 308-313, for a retrieval made for call c
last_reply_mp3(c) ==
    /\ audio' = [audio EXCEPT ![c] =
                    AudioResponse("/audio/last-reply.mp3",
                                  IF LAST_REPLY_MP3.is_none THEN <<>> ELSE LAST_REPLY_MP3.bytes)]
    /\ UNCHANGED <<env, LAST_REPLY_MP3, MARGARET_GREETING_MP3, hpc, form, reply_text, resp,
                   genCalls, ttsCalls, turns, gen, tts, inbounds, greetingVars>>

\* what the synthesizer answers for the greeting text (r.content, line 351)
GreetingContents == {<<"mp3", "greeting", "a">>, <<"mp3", "greeting", "b">>}

\* margaret_greeting_mp3, lines 326-349: from the request to the await of the synthesizer
GreetingRequest(c) ==
    /\ gpc[c] = "idle"
    /\ IF ~MARGARET_GREETING_MP3.is_none
       THEN /\ audio' = [audio EXCEPT ![c] =
                    AudioResponse("/audio/margaret-greeting.mp3", MARGARET_GREETING_MP3.bytes)]
            /\ UNCHANGED <<gpc, greetingPosts>>
       ELSE IF ~EnvLookupOk(env)
       THEN /\ audio' = [audio EXCEPT ![c] = AudioError("/audio/margaret-greeting.mp3")]
            /\ UNCHANGED <<gpc, greetingPosts>>
       ELSE /\ greetingPosts < MaxGreetingPosts
            /\ greetingPosts' = greetingPosts + 1
            /\ gpc' = [gpc EXCEPT ![c] = "synth"]
            /\ UNCHANGED audio
    /\ UNCHANGED <<env, LAST_REPLY_MP3, MARGARET_GREETING_MP3, hpc, form, reply_text, resp,
                   genCalls, ttsCalls, turns, gen, tts, inbounds, greetingWrites>>

\* margaret_greeting_mp3, lines 349-353: the synthesizer answers or fails
GreetingSynthReturns(c) ==
    /\ gpc[c] = "synth"
    /\ gpc' = [gpc EXCEPT ![c] = "idle"]
    /\ \/ \E content \in GreetingContents :
            /\ MARGARET_GREETING_MP3' = [is_none |-> FALSE, bytes |-> content]
            /\ greetingWrites' = greetingWrites + 1
            /\ audio' = [audio EXCEPT ![c] =
                    AudioResponse("/audio/margaret-greeting.mp3", content)]
       \/ /\ audio' = [audio EXCEPT ![c] = AudioError("/audio/margaret-greeting.mp3")]
          /\ UNCHANGED <<MARGARET_GREETING_MP3, greetingWrites>>
    /\ UNCHANGED <<env, LAST_REPLY_MP3, hpc, form, reply_text, resp, genCalls, ttsCalls,
                   turns, gen, tts, inbounds, greetingPosts>>

-----------------------------------------------------------------------------
(* Specifications *)

\* the scheduler thread alone, with the handlers idle
Init ==
    /\ SchedInit
    /\ HttpInit
    /\ env = EnvRequired

Next ==
    \/ TickStart /\ UNCHANGED httpVars
    \/ FetchUser /\ UNCHANGED httpVars
    \/ InsertLog /\ UNCHANGED httpVars
    \/ MarkFired /\ UNCHANGED httpVars
    \/ Sleep /\ UNCHANGED httpVars
    \/ Restart /\ UNCHANGED httpVars

Spec == Init /\ [][Next]_vars

\* the scheduler thread under the scheduling of its thread: a step the thread can
\* take is eventually taken (a restart is not owed)
LoopStep == (TickStart \/ FetchUser \/ InsertLog \/ MarkFired \/ Sleep) /\ UNCHANGED httpVars

LiveSpec == Init /\ [][Next]_vars /\ WF_vars(LoopStep)

\* the webhook handlers alone, with the scheduler thread not started
TurnInit ==
    /\ SchedInit
    /\ clock = At(0, 9, 0, 0)
    /\ HttpInit

TurnNext ==
    \/ \E c \in Calls, f \in Forms : TurnRequest(c, f) /\ UNCHANGED schedVars
    \/ \E c \in Calls : TurnSynthReturns(c) /\ UNCHANGED schedVars

TurnSpec == TurnInit /\ [][TurnNext]_vars

\* the turn endpoint with its awaited synthesizer request always resumed: the client
\* is built with timeout=30.0 (line 260), so the await ends with an answer or raises
TurnLiveSpec ==
    /\ TurnInit
    /\ [][TurnNext]_vars
    /\ \A c \in Calls : WF_vars(TurnSynthReturns(c) /\ UNCHANGED schedVars)

\* whole calls as the telephony platform drives them: it requests the inbound
\* document, posts a turn, retrieves the reply audio that the call's current document
\* plays, and reports the status of the call
PlaysReply(c) ==
    /\ hpc[c] = "idle"
    /\ resp[c].doc # <<>>
    /\ resp[c].doc[1] = PlayReplyDoc[1]

\* a turn is posted without the speech field, or with speech
CallForms == {NoForm, [present |-> TRUE, text |-> <<" ", "h", "i", " ">>]}

\* what the reply generator answers there, when it answers
CallGeneratedTexts == {<<"o", "h", " ">>}

CallNext ==
    \/ \E c \in Calls : twilio_voice_inbound(c) /\ UNCHANGED schedVars
    \/ \E c \in Calls, f \in CallForms :
          /\ TotalTurns + SumOver(inbounds, Calls) < MaxCallRequests
          /\ TurnRequestOver(c, f, CallGeneratedTexts)
          /\ UNCHANGED schedVars
    \/ \E c \in Calls : TurnSynthReturns(c) /\ UNCHANGED schedVars
    \/ \E c \in Calls : PlaysReply(c) /\ last_reply_mp3(c) /\ UNCHANGED schedVars
    \/ \E status \in CallStatuses : twilio_voice_status(status) /\ UNCHANGED schedVars

CallSpec == TurnInit /\ [][CallNext]_vars

\* the two audio endpoints, with retrievals made for several calls at once
AudioNext ==
    \/ \E c \in Calls : GreetingRequest(c) /\ UNCHANGED schedVars
    \/ \E c \in Calls : GreetingSynthReturns(c) /\ UNCHANGED schedVars
    \/ \E c \in Calls : last_reply_mp3(c) /\ UNCHANGED schedVars

AudioSpec == TurnInit /\ [][AudioNext]_vars

-----------------------------------------------------------------------------
(* Properties: the scheduler *)

\* the UTC instant and the reference-timezone date of a call_logs row / a fired mark
LogInstant(i) == FromIsoFormat(call_logs[i].call_time)
LocalDateOfInstant(utc) == DateOf(ToUk(utc))
MinuteIndex(utc) == utc \div UnitsPerMinute

\* the ids of the rows detection returns at instant n from the table as it stands
DetectedIds(n, order) ==
    LET d == DetectDue(ListEnabled(schedules, order), n)
    IN  {d[k].id : k \in DOMAIN d}

\* the tick in progress has just run detection: nothing was written since
JustDetected ==
    \/ pc = "fetch" /\ idx = 1
    \/ pc = "sleep" /\ due = <<>> /\ lastFail.tick # tickNo

\* C1 (as claimed): over any sequence of ticks, failed ticks and restarts included,
\* no schedule has two call_logs rows on one calendar day of the reference timezone.
C1_AtMostOneFiringPerDay ==
    \A i, j \in DOMAIN call_logs :
        (i < j /\ logMeta[i].sid = logMeta[j].sid)
            => LocalDateOfInstant(LogInstant(i)) # LocalDateOfInstant(LogInstant(j))

\* C1 (amended): a schedule gets a second call_logs row on a calendar day only when
\* the earlier firing of that day did not reach its mark-fired write; a firing that
\* was marked is never followed by another firing of that schedule on that date.
C1_AtMostOneMarkedFiringPerDay ==
    \A i, j \in DOMAIN call_logs :
        (/\ i < j
         /\ logMeta[i].sid = logMeta[j].sid
         /\ LocalDateOfInstant(LogInstant(i)) = LocalDateOfInstant(LogInstant(j)))
            => ~logMeta[i].marked

\* a schedule was fired and marked, the process was restarted, and the new tick ran
\* detection in the same minute
C1_Witness ==
    \E i \in DOMAIN call_logs :
        /\ logMeta[i].tick > 0
        /\ logMeta[i].marked
        /\ tickNo > logMeta[i].tick
        /\ restarts > 0
        /\ JustDetected
        /\ MinuteIndex(now) = MinuteIndex(LogInstant(i))

-----------------------------------------------------------------------------
\* the seven day symbols in the order Monday = 0 ... Sunday = 6
DaySymbols == <<Mon, Tue, Wed, Thu, Fri, Sat, Sun>>

\* what the claim says of row s at instant n
C2_ShouldBeDue(s, n) ==
    LET local == ToUk(n)
    IN  /\ s.enabled
        /\ \E k \in 1..DaysPerWeek :
              Strip(s.day_of_week) = DaySymbols[k] /\ k - 1 = Weekday(local)
        /\ parse_hhmm_ok(s.call_time)
        /\ Len(Strip(s.call_time)) = 5
        /\ parse_hhmm(s.call_time) = <<HourOf(local), MinuteOf(local)>>
        /\ ~(s.last_called_at.kind = "iso"
             /\ LocalDateOfInstant(FromIsoFormat(s.last_called_at)) = DateOf(local))

\* the ids of the rows in `due`
DueIds == {due[k].id : k \in DOMAIN due}

\* C2: whenever a tick has run detection at its instant `now` on the table the store
\* holds, `due` is exactly the enabled rows whose day symbol maps to now's weekday,
\* whose call time is now's hour:minute and whose fired mark is not on now's date
\* (all in the reference timezone), each once.
C2_DetectionExact ==
    JustDetected =>
        /\ DueIds = {id \in DOMAIN schedules : C2_ShouldBeDue(schedules[id], now)}
        /\ Len(due) = Cardinality(DueIds)

\* a tick has detected a due row whose day symbol and call time needed trimming, in BST
C2_Witness ==
    /\ JustDetected
    /\ UkOffsetMinutes(now) # 0
    /\ \E k \in DOMAIN due : due[k].id = 2
    /\ \E id \in DOMAIN schedules :
          schedules[id].enabled /\ schedules[id].last_called_at.kind = "iso"
              /\ ~(\E k \in DOMAIN due : due[k].id = id)
              /\ Strip(schedules[id].call_time) = now_hhmm(ToUk(now))

-----------------------------------------------------------------------------
\* the instants of the minute of n
SameMinute(n) == {MinuteIndex(n) * UnitsPerMinute + k : k \in 0..(UnitsPerMinute - 1)}

\* the UTC instants whose reference-timezone wall time is `local`
FromUk(local) == {n \in {local, local - MinutesPerHour * UnitsPerMinute} : n >= 0 /\ ToUk(n) = local}

\* later instants of the calendar date of the fired mark t: the rest of its minute,
\* the two minutes after it, the minute of the row's own call time on that date and
\* the last minute of the date
LaterSameDate(t, s) ==
    LET date == LocalDateOfInstant(t)
        own == IF parse_hhmm_ok(s.call_time) /\ Len(Strip(s.call_time)) = 5
               THEN UNION {FromUk(At(date, parse_hhmm(s.call_time)[1], parse_hhmm(s.call_time)[2], k)) :
                              k \in 0..(UnitsPerMinute - 1)}
               ELSE {}
        last == UNION {FromUk(At(date, 23, 59, k)) : k \in 0..(UnitsPerMinute - 1)}
    IN  {n \in (t..(t + 3 * UnitsPerMinute)) \cup own \cup last :
            n >= t /\ LocalDateOfInstant(n) = date}

\* C3: when a tick has run detection, a detection at any instant of the same minute
\* on the unchanged table returns the same rows; and a row that carries a fired mark
\* is excluded by the tick's detection when the mark is on the tick's date, and by a
\* detection at every later instant of the calendar date of the mark.
C3_IdempotentUntilMarked ==
    /\ JustDetected =>
          /\ \A order \in Orders : \A n \in SameMinute(now) : DetectedIds(n, order) = DueIds
          /\ \A id \in DOMAIN schedules :
                (/\ schedules[id].last_called_at.kind = "iso"
                 /\ LocalDateOfInstant(FromIsoFormat(schedules[id].last_called_at))
                        = LocalDateOfInstant(now))
                    => id \notin DueIds
    /\ pc \in {"fetch", "sleep"} =>
          \A id \in DOMAIN schedules :
              schedules[id].last_called_at.kind = "iso" =>
                  \A n \in LaterSameDate(FromIsoFormat(schedules[id].last_called_at), schedules[id]) :
                      RowOutcome(schedules[id], ToUk(n)) # "append"

\* a row was fired and marked by a tick, and the tick of the next minute (same date)
\* has run detection
C3_Witness ==
    \E i \in DOMAIN call_logs :
        /\ logMeta[i].tick > 0
        /\ logMeta[i].marked
        /\ schedules[logMeta[i].sid].last_called_at = call_logs[i].call_time
        /\ JustDetected
        /\ restarts = 0
        /\ MinuteIndex(now) = MinuteIndex(LogInstant(i)) + 1
        /\ LocalDateOfInstant(now) = LocalDateOfInstant(LogInstant(i))

-----------------------------------------------------------------------------
\* the call_logs rows written for schedule id by tick t
LogsOf(id, t) == {i \in DOMAIN call_logs : logMeta[i].sid = id /\ logMeta[i].tick = t}

\* C4 (as claimed): when a tick ends on a failure while processing one due schedule,
\* every other schedule that was due in that tick has its call_logs row of that tick
\* and its fired mark of that tick.
C4_FailureIsolated ==
    (pc = "sleep" /\ lastFail.tick = tickNo /\ lastFail.sid # 0) =>
        \A k \in DOMAIN due :
            due[k].id # lastFail.sid =>
                /\ LogsOf(due[k].id, tickNo) # {}
                /\ schedules[due[k].id].last_called_at = IsoFormatUtc(now)

-----------------------------------------------------------------------------
\* the tick that logged lastFail failed in the user fetch of schedule lastFail.sid,
\* and that schedule's row is as it was then
FetchFailedFor == lastFail.step = "fetch" /\ schedules[lastFail.sid] = lastFail.row

\* the fetch failure left no call_logs row of that tick for the schedule, and left
\* its row (last_called_at included) as detection had read it
C5_NoTraceOfFailedFetch ==
    (lastFail.step = "fetch" /\ lastFail.tick = tickNo) =>
        /\ LogsOf(lastFail.sid, tickNo) = {}
        /\ schedules[lastFail.sid] = lastFail.row

-----------------------------------------------------------------------------
\* a row whose day symbol is none of the seven, or whose call time does not parse
Malformed(s) ==
    \/ ~(\E k \in 1..DaysPerWeek : Strip(s.day_of_week) = DaySymbols[k])
    \/ ~parse_hhmm_ok(s.call_time)

\* C6: detection never raises on a malformed row; when a tick has run detection, no
\* malformed row is in `due` and every well-formed row that is due at `now` is.
C6_MalformedRowsSkipped ==
    /\ lastFail.step # "detect"
    /\ JustDetected =>
          /\ \A k \in DOMAIN due : ~Malformed(due[k])
          /\ \A id \in DOMAIN schedules :
                (~Malformed(schedules[id]) /\ C2_ShouldBeDue(schedules[id], now))
                    => id \in DueIds

\* a tick has run detection over a table with a row of malformed day and a row of
\* unparseable time, and returned due rows
C6_Witness ==
    /\ JustDetected
    /\ due # <<>>
    /\ \E id \in DOMAIN schedules :
          /\ schedules[id].enabled
          /\ schedules[id].day_of_week = Funday
          /\ Strip(schedules[id].call_time) = now_hhmm(ToUk(now))
    /\ \E id \in DOMAIN schedules :
          /\ schedules[id].enabled
          /\ ~parse_hhmm_ok(schedules[id].call_time)
          /\ Strip(schedules[id].day_of_week) = DaySymbols[Weekday(ToUk(now)) + 1]

-----------------------------------------------------------------------------
\* C7: whatever a tick raises (in the listing, the user fetch, the log append or the
\* mark-fired write), the loop catches it and goes on to start the next tick.
C7_LoopSurvivesTickFailure ==
    \A n \in 1..(MaxTicks - 1) : (tickNo = n /\ lastFail.tick = n) ~> (tickNo > n)

\* a tick has started after the loop caught the failure of the tick before it, with
\* no restart
C7_Witness == lastFail.tick > 0 /\ tickNo > lastFail.tick /\ restarts = 0 /\ pc # "tick"

-----------------------------------------------------------------------------
\* the stub fields of a call_logs row
StubFields(r) ==
    /\ r.duration_seconds = 0
    /\ r.answered = FALSE
    /\ r.recording_url = NoneValue
    /\ r.summary = "Scheduler triggered (Twilio not yet connected)."
    /\ r.mood = "neutral"

\* every row carrying a fired mark has a call_logs row of its user with that instant
MarkHasLog ==
    \A id \in DOMAIN schedules :
        schedules[id].last_called_at.kind = "iso" =>
            \E i \in DOMAIN call_logs :
                /\ call_logs[i].user_id = schedules[id].user_id
                /\ call_logs[i].call_time.tz = "+00:00"
                /\ LogInstant(i) = FromIsoFormat(schedules[id].last_called_at)

\* the due rows of the tick in progress whose user fetch has succeeded
FetchedRows ==
    {k \in DOMAIN due :
        \/ k < idx
        \/ k = idx /\ pc \in {"insert", "update"}
        \/ k = idx /\ pc = "sleep" /\ lastFail.tick = tickNo /\ lastFail.step \in {"insert", "update"}}

\* the tick in progress is past the log append of due row k
PastAppend(k) ==
    \/ k < idx
    \/ k = idx /\ pc = "update"
    \/ k = idx /\ pc = "sleep" /\ lastFail.tick = tickNo /\ lastFail.step = "update"

\* the tick in progress ended on the failure of the log append of due row k
AppendFailed(k) == k = idx /\ pc = "sleep" /\ lastFail.tick = tickNo /\ lastFail.step = "insert"

\* C8 (as claimed): each due row whose user fetch succeeded gets exactly one
\* call_logs row from the tick (stub fields, topics equal to the user's interests),
\* the mark is written only after it and with the tick's instant; so a marked row
\* has a call_logs row with that instant for its user.
C8_OneStubLogThenMark ==
    /\ MarkHasLog
    /\ \A i \in DOMAIN call_logs :
          logMeta[i].tick > 0 =>
              /\ StubFields(call_logs[i])
              /\ call_logs[i].topics = users[call_logs[i].user_id].interests
    /\ \A k \in FetchedRows :
          (PastAppend(k) \/ AppendFailed(k)) => Cardinality(LogsOf(due[k].id, tickNo)) = 1

\* C8 (amended): for each due row whose user fetch succeeded the tick attempts one
\* append of a call_logs row (stub fields, call instant the tick's instant in UTC,
\* topics equal to the user's interests, or the empty text when the user has none):
\* exactly one row once the append has succeeded, none when it failed; the mark is
\* written only after a successful append and with the same instant; so a marked row
\* has a call_logs row with that instant for its user.
C8_StubLogBeforeMark ==
    /\ MarkHasLog
    /\ \A i \in DOMAIN call_logs :
          logMeta[i].tick > 0 =>
              /\ StubFields(call_logs[i])
              /\ call_logs[i].topics =
                    (IF users[call_logs[i].user_id].interests = NoneValue THEN ""
                     ELSE users[call_logs[i].user_id].interests)
              /\ logMeta[i].marked =>
                    FromIsoFormat(schedules[logMeta[i].sid].last_called_at) >= LogInstant(i)
    /\ \A k \in FetchedRows :
          /\ PastAppend(k) =>
                /\ Cardinality(LogsOf(due[k].id, tickNo)) = 1
                /\ \A i \in LogsOf(due[k].id, tickNo) :
                      /\ call_logs[i].call_time = IsoFormatUtc(now)
                      /\ call_logs[i].user_id = due[k].user_id
          /\ AppendFailed(k) => LogsOf(due[k].id, tickNo) = {}
          /\ k < idx =>
                /\ schedules[due[k].id].last_called_at = IsoFormatUtc(now)
                /\ \A i \in LogsOf(due[k].id, tickNo) : logMeta[i].marked
          /\ k >= idx => schedules[due[k].id].last_called_at = due[k].last_called_at

\* a tick has appended the row of a due schedule of a user without interests and
\* then marked the schedule, in BST
C8_Witness ==
    \E i \in DOMAIN call_logs :
        /\ logMeta[i].tick = tickNo
        /\ logMeta[i].marked
        /\ users[call_logs[i].user_id].interests = NoneValue
        /\ schedules[logMeta[i].sid].last_called_at = call_logs[i].call_time
        /\ UkOffsetMinutes(now) # 0

-----------------------------------------------------------------------------
(* Properties: the turn endpoint *)

DirectiveKinds == {"Play", "Say", "Gather", "Redirect"}

\* an instruction document: directives of the dialect, ending in a redirect
ValidDocument(doc) ==
    /\ doc # <<>>
    /\ \A k \in DOMAIN doc : doc[k].kind \in DirectiveKinds
    /\ doc[Len(doc)].kind = "Redirect"

\* C9 (as claimed): every answer of the turn endpoint is an instruction document and
\* never an HTTP failure, whatever the generator, the synthesizer, the synthesizer
\* configuration and the speech field do.
C9_AlwaysInstructionDocument ==
    \A c \in Calls :
        resp[c] # NoResponse =>
            /\ resp[c].status = HTTP_OK
            /\ resp[c].media_type = "application/xml"
            /\ ValidDocument(resp[c].doc)

-----------------------------------------------------------------------------
\* the speech field is absent, empty or only whitespace
EmptyAfterTrim(f) == ~f.present \/ \A k \in DOMAIN f.text : f.text[k] \in Whitespace

\* the document: speak an apology, redirect by POST to the inbound endpoint
IsRetryApology(r) ==
    /\ r.status = HTTP_OK
    /\ r.media_type = "application/xml"
    /\ Len(r.doc) = 2
    /\ r.doc[1].kind = "Say" /\ r.doc[1].text # <<>>
    /\ r.doc[2].kind = "Redirect" /\ r.doc[2].method = "POST"
    /\ r.doc[2].url = "/twilio/voice/inbound"

\* C10: a turn request whose speech is empty after trimming is answered at once with
\* the retry-apology document, with no call of the reply generator, no call of the
\* synthesizer and no write of the session-reply slot.
C10_EmptySpeechApologises ==
    [][\A c \in Calls :
          (turns'[c] = turns[c] + 1 /\ EmptyAfterTrim(form'[c])) =>
              /\ IsRetryApology(resp'[c])
              /\ hpc'[c] = "idle"
              /\ genCalls' = genCalls
              /\ ttsCalls' = ttsCalls
              /\ LAST_REPLY_MP3' = LAST_REPLY_MP3]_vars

\* a whitespace-only speech field was answered with the apology while the slot held
\* the reply of an earlier turn
C10_Witness ==
    \E c \in Calls :
        /\ form[c].present
        /\ form[c].text # <<>>
        /\ EmptyAfterTrim(form[c])
        /\ IsRetryApology(resp[c])
        /\ hpc[c] = "idle"
        /\ ~LAST_REPLY_MP3.is_none

-----------------------------------------------------------------------------
\* a response that carries an instruction document
IsDocument(r) ==
    /\ r.status = HTTP_OK
    /\ r.media_type = "application/xml"
    /\ ValidDocument(r.doc)

\* C11 (as claimed): when the reply generator raises during a turn with non-empty
\* speech, the reply text becomes the fixed fallback line, the synthesizer is called
\* with that line, and the turn ends with a valid instruction document.
C11_GeneratorFailureFallsBack ==
    /\ [][\A c \in Calls :
            (turns'[c] = turns[c] + 1 /\ ~EmptyAfterTrim(form'[c]) /\ gen'[c] = "raised") =>
                /\ reply_text'[c] = FallbackReply
                /\ ttsCalls' = Append(ttsCalls, FallbackReply)
                /\ hpc'[c] = "tts"]_vars
    /\ [](\A c \in Calls :
            (gen[c] = "raised" /\ hpc[c] = "idle") => IsDocument(resp[c]))

-----------------------------------------------------------------------------
MarkupChars == {"&", "<", ">"}

\* the text with every markup character taken out
WithoutMarkup(t) == SelectSeq(t, LAMBDA ch : ch \notin MarkupChars)

RECURSIVE Flatten(_)
Flatten(ss) == IF ss = <<>> THEN <<>> ELSE Head(ss) \o Flatten(Tail(ss))

\* the text with the angle brackets taken out and every ampersand spelled as a word
SpokenAs(t) ==
    LET kept == SelectSeq(t, LAMBDA ch : ch \notin {"<", ">"})
    IN  Flatten([i \in DOMAIN kept |-> IF kept[i] = "&" THEN <<"a", "n", "d">> ELSE <<kept[i]>>])

\* the synthesizer call of call c's turn fails in this step
SynthFails(c) == hpc[c] = "tts" /\ hpc'[c] = "idle" /\ tts'[c] = "failed"

\* the document: speak `text`, redirect by POST to the inbound endpoint, nothing else
IsSayThenRedirect(r, text) ==
    /\ IsDocument(r)
    /\ Len(r.doc) = 2
    /\ r.doc[1].kind = "Say" /\ r.doc[1].text = text
    /\ r.doc[2].kind = "Redirect" /\ r.doc[2].method = "POST"
    /\ r.doc[2].url = "/twilio/voice/inbound"
    /\ \A k \in DOMAIN r.doc : r.doc[k].kind \notin {"Gather", "Play"}

\* C12 (as claimed): when the synthesizer fails, the document speaks the reply text
\* with the characters &, < and > removed and is otherwise the reply text, then
\* redirects by POST to the inbound endpoint, with no gather and no play directive.
C12_SpeaksReplyWithoutMarkup ==
    [][\A c \in Calls :
          SynthFails(c) => IsSayThenRedirect(resp'[c], WithoutMarkup(reply_text[c]))]_vars

\* C12 (amended): when the synthesizer fails, the document speaks the reply text with
\* < and > removed and every & replaced by the word "and" (so the spoken text holds
\* none of the three characters), then redirects by POST to the inbound endpoint,
\* with no gather and no play directive.
C12_SpeaksReplyWithAmpersandSpelled ==
    [][\A c \in Calls :
          SynthFails(c) =>
              /\ IsSayThenRedirect(resp'[c], SpokenAs(reply_text[c]))
              /\ \A k \in DOMAIN resp'[c].doc[1].text :
                    resp'[c].doc[1].text[k] \notin MarkupChars]_vars

\* the synthesizer failed for a reply that holds all three characters
C12_Witness ==
    \E c \in Calls :
        /\ tts[c] = "failed"
        /\ hpc[c] = "idle"
        /\ reply_text[c] = <<"a", "&", "b", "<", "c", ">">>
        /\ resp[c].status = HTTP_OK
        /\ Len(resp[c].doc) = 2
        /\ resp[c].doc[1].text = <<"a", "a", "n", "d", "b", "c">>

-----------------------------------------------------------------------------
(* Properties: the audio slots *)

\* the synthesizer call of call c's turn succeeds in this step
SynthSucceeds(c) == hpc[c] = "tts" /\ hpc'[c] = "idle" /\ tts'[c] = "ok"

\* C13: the session-reply slot is one slot for all calls: the turn of any call stores
\* its audio in it, and a retrieval made for a call returns what the slot holds then,
\* whichever call stored it; so it is reachable that the retrieval made for call A,
\* after A's turn stored its audio, returns the audio of call B's reply (C13_Witness).
C13_OneSlotForAllCalls ==
    [][/\ \A c \in Calls : SynthSucceeds(c) => LAST_REPLY_MP3' = Mp3Of(reply_text[c])
       /\ \A c \in Calls :
            audio'[c] # audio[c] =>
                /\ ~LAST_REPLY_MP3.is_none
                /\ audio'[c].body = LAST_REPLY_MP3.bytes]_vars

\* calls A and B each made one turn, with different replies, both synthesized; the
\* retrieval made for A, whose document plays the reply, returned B's audio
C13_Witness ==
    \E a, b \in Calls :
        /\ a # b
        /\ turns[a] = 1 /\ turns[b] = 1
        /\ tts[a] = "ok" /\ tts[b] = "ok"
        /\ resp[a] = XmlResponse(PlayReplyDoc)
        /\ reply_text[a] # reply_text[b]
        /\ audio[a].status = HTTP_OK
        /\ audio[a].body = Mp3Of(reply_text[b]).bytes

-----------------------------------------------------------------------------
\* C14 (as claimed): the static-greeting slot is write-once: over any interleaving of
\* greeting retrievals the slot is assigned at most once, and once it is populated
\* its content never changes.
C14_GreetingWrittenOnce ==
    /\ [](greetingWrites <= 1)
    /\ [][~MARGARET_GREETING_MP3.is_none => MARGARET_GREETING_MP3' = MARGARET_GREETING_MP3]_vars

\* the content of a slot as a response body: its bytes, or nothing when it is None
BodyOf(slot) == IF slot.is_none THEN <<>> ELSE slot.bytes

\* C15 (as claimed): every answer of the two audio endpoints is an audio response and
\* never an error: its body is the bytes the endpoint's slot holds when the answer is
\* sent, and is empty when the slot is not populated, which is also the answer of a
\* greeting retrieval whose synthesis could not be done.
C15_AlwaysAudioResponse ==
    [][\A c \in Calls :
          audio'[c] # audio[c] =>
              /\ audio'[c].status = HTTP_OK
              /\ audio'[c].media_type = "audio/mpeg"
              /\ audio'[c].body =
                    BodyOf(IF audio'[c].path = "/audio/last-reply.mp3"
                           THEN LAST_REPLY_MP3' ELSE MARGARET_GREETING_MP3')]_vars

-----------------------------------------------------------------------------
\* C16 (as claimed): every turn request eventually returns an instruction document: the
\* n-th turn of a call is followed by its document (or by the call's next turn, which
\* the platform posts only after the answer), whatever the generator and the
\* synthesizer do and however long they take.
C16_TurnReturnsDocument ==
    \A c \in Calls : \A n \in 1..MaxTurns :
        (turns[c] = n) ~> (turns[c] > n \/ (hpc[c] = "idle" /\ IsDocument(resp[c])))

-----------------------------------------------------------------------------
(* Properties: whole calls *)

\* the document ends by sending the call back to the inbound endpoint (Start)
LoopsBackToStart(r) ==
    /\ r.doc # <<>>
    /\ r.doc[Len(r.doc)].kind = "Redirect"
    /\ r.doc[Len(r.doc)].url = "/twilio/voice/inbound"

\* C17 (as claimed): the retry of a silent caller is bounded: a call whose caller never
\* spoke (no turn was posted for it) and that has come back to Start for the
\* MaxCallRequests-th time is not sent back to Start once more.
C17_SilentRetryBounded ==
    \A c \in Calls :
        (turns[c] = 0 /\ inbounds[c] = MaxCallRequests) => ~LoopsBackToStart(resp[c])

-----------------------------------------------------------------------------
\* C18: the session-reply slot is written only by a turn whose synthesis succeeded,
\* which stores the audio of its reply; every other step (a turn with empty speech, a
\* failed synthesis, an inbound request, a status callback, an audio retrieval) leaves
\* it unchanged, so it holds the audio of the latest successful synthesis: it is
\* absent while the synthesizer has not been called, and present once a call's latest
\* synthesis has succeeded.
C18_SlotHoldsLatestSynthesis ==
    /\ [][/\ LAST_REPLY_MP3' # LAST_REPLY_MP3 => \E c \in Calls : SynthSucceeds(c)
          /\ \A c \in Calls : SynthSucceeds(c) => LAST_REPLY_MP3' = Mp3Of(reply_text[c])]_vars
    /\ [](ttsCalls = <<>> => LAST_REPLY_MP3.is_none)
    /\ [](LAST_REPLY_MP3.is_none => \A c \in Calls : tts[c] # "ok")

\* call a's synthesis succeeded and its audio was retrieved; call b had a failed
\* synthesis and then a turn with empty speech; the slot holds a's audio
C18_Witness ==
    \E a, b \in Calls :
        /\ a # b
        /\ tts[a] = "ok"
        /\ audio[a].status = HTTP_OK
        /\ tts[b] = "failed"
        /\ turns[b] = 2
        /\ EmptyAfterTrim(form[b])
        /\ IsRetryApology(resp[b])
        /\ reply_text[a] # reply_text[b]
        /\ LAST_REPLY_MP3 = Mp3Of(reply_text[a])

-----------------------------------------------------------------------------
GreetingUrl == "https://helloagain-calls-production.up.railway.app/audio/margaret-greeting.mp3"
SessionReplyUrl == "https://helloagain-calls-production.up.railway.app/audio/last-reply.mp3"

IsPostRedirectToInbound(d) ==
    d.kind = "Redirect" /\ d.method = "POST" /\ d.url = "/twilio/voice/inbound"

\* [play audio at url, gather speech, speak, redirect]
IsPlayGatherShape(r, url) ==
    /\ IsDocument(r)
    /\ Len(r.doc) = 4
    /\ r.doc[1].kind = "Play" /\ r.doc[1].url = url
    /\ r.doc[2].kind = "Gather"
    /\ r.doc[3].kind = "Say" /\ r.doc[3].text # <<>>
    /\ IsPostRedirectToInbound(r.doc[4])

\* [speak, redirect]
IsSayShape(r) ==
    /\ IsDocument(r)
    /\ Len(r.doc) = 2
    /\ r.doc[1].kind = "Say"
    /\ IsPostRedirectToInbound(r.doc[2])

\* C19: every document of the inbound and turn handlers is [play, gather, speak,
\* redirect], playing the static greeting for the inbound request and the session reply
\* for a synthesized reply, or [speak, redirect], for empty speech and for a failed
\* synthesis; every gather has timeout 6 and posts by POST to the turn endpoint, and
\* every document ends with a POST redirect to the inbound endpoint.
C19_DocumentShapes ==
    /\ [][\A c \in Calls :
            /\ inbounds'[c] # inbounds[c] => IsPlayGatherShape(resp'[c], GreetingUrl)
            /\ SynthSucceeds(c) => IsPlayGatherShape(resp'[c], SessionReplyUrl)
            /\ SynthFails(c) => IsSayShape(resp'[c])
            /\ (turns'[c] # turns[c] /\ EmptyAfterTrim(form'[c])) => IsSayShape(resp'[c])]_vars
    /\ [](\A c \in Calls :
            resp[c].media_type = "application/xml" =>
                /\ \/ IsPlayGatherShape(resp[c], GreetingUrl)
                   \/ IsPlayGatherShape(resp[c], SessionReplyUrl)
                   \/ IsSayShape(resp[c])
                /\ IsPostRedirectToInbound(resp[c].doc[Len(resp[c].doc)])
                /\ \A k \in DOMAIN resp[c].doc :
                      resp[c].doc[k].kind = "Gather" =>
                          /\ resp[c].doc[k].timeout = 6
                          /\ resp[c].doc[k].method = "POST"
                          /\ resp[c].doc[k].url = "/twilio/voice/turn")

\* one call holds the greeting document and the other, after a turn whose synthesis
\* failed, the [speak, redirect] document
C19_Witness ==
    \E a, b \in Calls :
        /\ a # b
        /\ inbounds[a] > 0
        /\ IsPlayGatherShape(resp[a], GreetingUrl)
        /\ tts[b] = "failed"
        /\ hpc[b] = "idle"
        /\ ~EmptyAfterTrim(form[b])
        /\ IsSayShape(resp[b])

-----------------------------------------------------------------------------
(* Properties: the cadence of the loop *)

\* C20 (as claimed): while the loop runs, detection is executed once for every
\* wall-clock minute: when a tick that read the clock in one minute has ended and the
\* loop has slept, the next tick reads the clock in the very next minute, whatever the
\* tick took and however it ended, so no minute, and no schedule due in it, is passed
\* over.
C20_EveryMinuteDetected ==
    [][(pc = "sleep" /\ pc' = "tick" /\ restarts' = restarts) =>
          MinuteIndex(clock') = MinuteIndex(now) + 1]_vars

====
